---- MODULE Spec2Model ----
(***************************************************************************)
(* Model of the TTS engine of backend/src/tts: the lifecycle state of      *)
(* TTSEngineBase (engine_base.py), the coroutines of CoquiXTTSEngine       *)
(* (coqui.py) as they interleave on one asyncio event loop, and the pure   *)
(* audio utilities of AudioProcessor (audio.py).                           *)
(*                                                                         *)
(* A coroutine runs without interruption between two awaits, so every      *)
(* action below is the code between two suspension points.  The only       *)
(* suspension points of the engine are the two loop.run_in_executor calls  *)
(* (model construction, model inference).                                  *)
(***************************************************************************)
EXTENDS Integers, Sequences, FiniteSets, TLC

(***************************************************************************)
(* Bounds of the model.                                                    *)
(***************************************************************************)
\* temporary reference files that may exist on disk at one time
MaxTemps == 1
\* longest audio buffer handed to normalize_audio
MaxSamples == 3

\* the coroutines (callers) sharing one engine on one event loop
Callers == {"c1", "c2"}

(***************************************************************************)
(* Program constants.                                                      *)
(***************************************************************************)
\* coqui.py:14-17
SUPPORTED_LANGUAGES ==
    {"en", "es", "fr", "de", "it", "pt", "pl", "tr",
     "ru", "nl", "cs", "ar", "zh-cn", "ja", "hu", "ko"}

\* coqui.py:69, the default of kwargs.get("max_length", 500)
DefaultMaxLength == 500

\* engine_base.py:11, self.model = None
None == 0

\* a speaker_wav_path of None (coqui.py:77)
NoPath == "<None>"

\* audio.py:31, target_peak: float = 0.95, in hundredths of full scale
DefaultTargetPeak == 95

(***************************************************************************)
(* Inputs the callers draw from.                                           *)
(***************************************************************************)
Languages == {"en", "xx"}
TextLens == {0, 500, 501}
KwargsSet == {{}, {<<"max_length", 0>>}}
\* files that exist before any call: the caller's reference recording
UserFiles == {"ref.wav"}
\* speaker_wav: None, a str/Path (also the empty one), or a numpy array
SpeakerWavs ==
    {[type |-> "none", path |-> ""],
     [type |-> "str", path |-> "ref.wav"],
     [type |-> "str", path |-> ""],
     [type |-> "ndarray", path |-> ""]}

\* sample values, in hundredths of full scale, and the buffers made of them
SampleValues == {-100, -5, 0, 5, 100}
RECURSIVE SeqsUpTo(_, _)
SeqsUpTo(S, n) ==
    IF n = 0 THEN {<<>>}
    ELSE LET shorter == SeqsUpTo(S, n - 1) IN
         shorter \cup {Append(q, x) : q \in {r \in shorter : Len(r) = n - 1}, x \in S}
Buffers == SeqsUpTo(SampleValues, MaxSamples)
TargetPeaks == {DefaultTargetPeak, 50}

\* the config mappings an engine is constructed with: no "device" key, "auto",
\* and explicit device names (one of them no accelerator torch knows)
Configs ==
    {{}, {<<"device", "auto">>}, {<<"device", "cuda">>}, {<<"device", "mps">>},
     {<<"device", "cpu">>}, {<<"device", "tpu">>}}
\* the config of the engine the callers share
DefaultConfig == {<<"device", "auto">>}
\* torch.backends has no attribute mps, or mps.is_available() is False / True
MpsStates == {"no_attr", "unavailable", "available"}

\* the names tempfile.NamedTemporaryFile can hand out
TempName(i) == <<"tmp1.wav", "tmp2.wav", "tmp3.wav", "tmp4.wav">>[i]
TempFiles == {TempName(i) : i \in 1..MaxTemps}

\* the identities a constructed model object can have; the engine's own and
\* one per running inference are alive at a time
Handles == 1..(Cardinality(Callers) + 1)

\* no call in progress.  was_loaded records is_loaded as the call found it.
NoOp == [kind |-> "none", text |-> 0, language |-> "en",
         speaker_wav |-> [type |-> "none", path |-> ""], kwargs |-> {},
         was_loaded |-> FALSE]

VARIABLES
    model,          \* self.model: None or the handle of a constructed model
    is_loaded,      \* self.is_loaded
    files,          \* the files that exist on disk
    pc,             \* per caller: where its coroutine is suspended
    op,             \* per caller: the call it is in and its arguments
    tmpfile,        \* per caller: the temp file its synthesize() call created ("": none)
    used,           \* per caller: the handle self.model gave its inference lambda
    result,         \* per caller: what its last call returned or raised
    unload_seen,    \* per caller: an unload_model() ran during its construction
                    \* and no load has been requested since (history)
    config,         \* self.config: the mapping the engine was constructed with
    device,         \* self.device
    cuda,           \* torch.cuda.is_available()
    mps,            \* torch.backends.mps: missing, unavailable or available
    supported,      \* the list object CoquiXTTSEngine.SUPPORTED_LANGUAGES
    audio,          \* AudioProcessor: the buffer handed to normalize_audio
    target_peak,    \* AudioProcessor: the target_peak handed to normalize_audio
    normalized      \* AudioProcessor: what normalize_audio returned or raised

engineVars == <<model, is_loaded, files, pc, op, tmpfile, used, result, unload_seen>>
audioVars == <<audio, target_peak, normalized>>
ctorVars == <<config, device, cuda, mps, supported>>
vars == <<engineVars, audioVars, ctorVars>>

\* what a call gives its caller: how it ended ("ok" or the error raised) and,
\* for health_check() and get_supported_languages(), the value returned;
\* `call` keeps which call it answers: for a ValueError of the validation
\* (coqui.py:66, 71) the request that was rejected, for every other outcome
\* the reference audio of the call
NoHealth == [engine |-> "", loaded |-> FALSE, config |-> {}]
NoRequest == [text |-> 0, language |-> "", kwargs |-> {}]
RaisedByValidation(status) == status \in {"unsupported_language", "text_too_long"}
Outcome(status, o) ==
    [status |-> status, health |-> NoHealth, languages |-> {},
     call |-> [kind |-> o.kind, was_loaded |-> o.was_loaded,
               speaker_wav |-> IF RaisedByValidation(status)
                               THEN NoOp.speaker_wav
                               ELSE o.speaker_wav,
               request |-> IF RaisedByValidation(status)
                           THEN [text |-> o.text, language |-> o.language,
                                 kwargs |-> o.kwargs]
                           ELSE NoRequest]]

\* normalize_audio has not been called
NotNormalized == [called |-> FALSE, raised |-> FALSE, num |-> <<>>, den |-> 1]

InitEngine ==
    /\ model = None
    /\ is_loaded = FALSE
    /\ files = UserFiles
    /\ pc = [c \in Callers |-> "idle"]
    /\ op = [c \in Callers |-> NoOp]
    /\ tmpfile = [c \in Callers |-> ""]
    /\ used = [c \in Callers |-> None]
    /\ result = [c \in Callers |-> Outcome("none", NoOp)]
    /\ unload_seen = [c \in Callers |-> FALSE]

\* dict.get(key, default) (coqui.py:26, 69)
KwargsGet(kwargs, key, default) ==
    IF \E p \in kwargs : p[1] = key
    THEN (CHOOSE p \in kwargs : p[1] = key)[2]
    ELSE default

\* a device selection that asks for mps before cuda
GetDeviceMpsFirst(cfg, cu, m) ==
    LET d == KwargsGet(cfg, "device", "auto") IN
    IF d = "auto"
    THEN IF m = "available" THEN "mps"
         ELSE IF cu THEN "cuda"
         ELSE "cpu"
    ELSE d

\* _get_device (coqui.py:24-34)
GetDevice(cfg, cu, m) ==
    LET d == KwargsGet(cfg, "device", "auto") IN
    IF d = "auto"
    THEN IF cu THEN "cuda"
         ELSE IF m = "available" THEN "mps"
         ELSE "cpu"
    ELSE d

\* __init__ (engine_base.py:9-12, coqui.py:19-22) on a machine where
\* cuda is available or not (cu) and mps is in state m
Construct(cfg, cu, m) ==
    /\ config = cfg
    /\ cuda = cu
    /\ mps = m
    /\ device = GetDevice(cfg, cu, m)
    /\ supported = SUPPORTED_LANGUAGES

Init ==
    /\ InitEngine
    /\ Construct(DefaultConfig, FALSE, "no_attr")
    /\ audio = <<>>
    /\ target_peak = DefaultTargetPeak
    /\ normalized = NotNormalized

(***************************************************************************)
(* Helpers.                                                                *)
(***************************************************************************)
\* max_length = kwargs.get("max_length", 500)
MaxLength(kwargs) == KwargsGet(kwargs, "max_length", DefaultMaxLength)

\* Python truthiness of speaker_wav_path: None and "" are falsy (coqui.py:89, 110)
Truthy(path) == path # NoPath /\ path # ""

\* `if language not in self.SUPPORTED_LANGUAGES` (coqui.py:65)
LanguageRejected(o) == o.language \notin supported

\* a length check that also rejects a text of exactly max_length characters
TextRejectedAtLimit(o) == o.text >= MaxLength(o.kwargs)

\* `if len(text) > max_length` (coqui.py:70)
TextRejected(o) == o.text > MaxLength(o.kwargs)

\* speaker_wav_path as lines 77-86 set it: None, str(speaker_wav), or the
\* name of the temp file the array was written to
SpeakerWavPath(speaker_wav, tmp) ==
    IF speaker_wav.type = "str" THEN speaker_wav.path
    ELSE IF speaker_wav.type = "ndarray" THEN tmp
    ELSE NoPath

\* a cleanup that forgets the isinstance test and unlinks whatever path was used
ShouldUnlinkAnyPath(path, speaker_wav) == Truthy(path)

\* `if speaker_wav_path and isinstance(speaker_wav, np.ndarray)` (coqui.py:110)
ShouldUnlink(path, speaker_wav) == Truthy(path) /\ speaker_wav.type = "ndarray"

\* the keyword arguments self.model.tts receives (coqui.py:89-107)
TtsArgs(o, path) ==
    IF Truthy(path)
    THEN [mode |-> "clone", text |-> o.text, language |-> o.language, speaker_wav |-> path]
    ELSE [mode |-> "default", text |-> o.text, language |-> o.language, speaker_wav |-> NoPath]

\* a coroutine that calls TTS(...) and self.model.tts(...) directly instead
\* of through the executor occupies the loop for as long as they run
HoldsLoopWhileWaiting(d) ==
    pc[d] \in {"load_wait", "synth_load_wait", "infer_queued", "infer_running"}

\* Does coroutine d occupy the event loop while it waits?  Construction and
\* inference are both handed to loop.run_in_executor and awaited
\* (coqui.py:41-44, 91-107), so a waiting coroutine never holds the loop.
HoldsLoop(d) == FALSE

\* coroutine c can be scheduled: no other coroutine occupies the event loop
Runnable(c) == \A d \in Callers \ {c} : ~HoldsLoop(d)

Constructing(c) == pc[c] \in {"load_wait", "synth_load_wait"}
Inferring(c) == pc[c] \in {"infer_queued", "infer_running"}

\* a health_check() that reports every constructed engine as loaded
HealthSnapshotAlwaysLoaded ==
    [engine |-> "CoquiXTTSEngine", loaded |-> TRUE, config |-> config]

\* the dict health_check() returns (engine_base.py:53-59)
HealthSnapshot == [engine |-> "CoquiXTTSEngine", loaded |-> is_loaded, config |-> config]

\* a call of caller c begins with arguments o and suspends at `at`
Suspend(c, o, at) ==
    /\ pc' = [pc EXCEPT ![c] = at]
    /\ op' = [op EXCEPT ![c] = o]
    /\ result' = [result EXCEPT ![c] = Outcome("pending", NoOp)]

\* the call of caller c returns r: its frame is gone
ReturnValue(c, r) ==
    /\ pc' = [pc EXCEPT ![c] = "idle"]
    /\ op' = [op EXCEPT ![c] = NoOp]
    /\ tmpfile' = [tmpfile EXCEPT ![c] = ""]
    /\ used' = [used EXCEPT ![c] = None]
    /\ result' = [result EXCEPT ![c] = r]

\* the model objects that are referenced: by the engine, by a running inference
LiveHandles == ({model} \cup {used[c] : c \in Callers}) \ {None}

\* TTS(self.model_name).to(self.device) returns a new object: none that is
\* still alive
FreshHandle == CHOOSE h \in Handles : h \notin LiveHandles

\* NamedTemporaryFile picks a name that does not exist
FreshTemp == CHOOSE f \in TempFiles : f \notin files

\* temp files promised to calls that are still waiting for their lazy load
PendingTemps ==
    Cardinality({d \in Callers : /\ pc[d] = "synth_load_wait"
                                 /\ op[d].speaker_wav.type = "ndarray"
                                 /\ ~LanguageRejected(op[d])
                                 /\ ~TextRejected(op[d])})

\* the call o of caller c returns None or audio (status = "ok") or raises
Return(c, o, status) == ReturnValue(c, Outcome(status, o))

(***************************************************************************)
(* load_model (coqui.py:36-50).                                            *)
(***************************************************************************)
\* a load_model that sets is_loaded whether or not the construction succeeded
FinishConstructionFlagAlways(c, ok) ==
    /\ model' = IF ok THEN FreshHandle ELSE model
    /\ is_loaded' = TRUE

\* lines 41-45 after the await: self.model = <handle>; self.is_loaded = True.
\* On an exception (lines 48-50) nothing is assigned and the error is re-raised.
FinishConstruction(c, ok) ==
    IF ok
    THEN /\ model' = FreshHandle
         /\ is_loaded' = TRUE
    ELSE UNCHANGED <<model, is_loaded>>

\* lines 36-44: the construction TTS(model_name).to(device) is handed to the
\* executor and the coroutine suspends.  There is no check of is_loaded and
\* no lock in front of it.
LoadModel(c) ==
    /\ pc[c] = "idle"
    /\ Runnable(c)
    /\ Suspend(c, [NoOp EXCEPT !.kind = "load", !.was_loaded = is_loaded], "load_wait")
    /\ unload_seen' = [d \in Callers |-> FALSE]
    /\ UNCHANGED <<model, is_loaded, files, tmpfile, used, audioVars, ctorVars>>

LoadModelReturn(c) ==
    /\ pc[c] = "load_wait"
    /\ Runnable(c)
    /\ \E ok \in BOOLEAN :
          /\ FinishConstruction(c, ok)
          /\ Return(c, op[c], IF ok THEN "ok" ELSE "load_error")
    /\ unload_seen' = [unload_seen EXCEPT ![c] = FALSE]
    /\ UNCHANGED <<files, audioVars, ctorVars>>

(***************************************************************************)
(* synthesize (coqui.py:52-117).                                           *)
(***************************************************************************)
\* lines 64-107 up to the await of the inference: validation, resolution of
\* the reference audio, submission of self.model.tts to the executor.
SynthBody(c, o) ==
    IF LanguageRejected(o)
    THEN /\ Return(c, o, "unsupported_language")
         /\ UNCHANGED files
    ELSE IF TextRejected(o)
    THEN /\ Return(c, o, "text_too_long")
         /\ UNCHANGED files
    ELSE IF o.speaker_wav.type = "ndarray"
    THEN \* lines 83-86: NamedTemporaryFile(delete=False) creates the file,
         \* sf.write fills it and may fail
         LET f == FreshTemp IN
         /\ files' = files \cup {f}
         /\ \E written \in BOOLEAN :
               IF written
               THEN /\ Suspend(c, o, "infer_queued")
                    /\ tmpfile' = [tmpfile EXCEPT ![c] = f]
                                    /\ used' = [used EXCEPT ![c] = None]
               ELSE Return(c, o, "io_error")
    ELSE /\ Suspend(c, o, "infer_queued")
         /\ tmpfile' = [tmpfile EXCEPT ![c] = ""]
              /\ used' = [used EXCEPT ![c] = None]
         /\ UNCHANGED files

Synthesize(c) ==
    \E t \in TextLens, l \in Languages, w \in SpeakerWavs, k \in KwargsSet :
        LET o == [kind |-> "synth", text |-> t, language |-> l, speaker_wav |-> w,
                  kwargs |-> k, was_loaded |-> is_loaded] IN
        /\ pc[c] = "idle"
        /\ Runnable(c)
        /\ w.type = "ndarray" => Cardinality(files \cap TempFiles) + PendingTemps < MaxTemps
        \* a request rejected at once never gets to look at speaker_wav: its
        \* outcome is the same for every reference, so one reference stands for all
        /\ (is_loaded /\ (LanguageRejected(o) \/ TextRejected(o))) => w.type = "none"
        /\ IF ~is_loaded
           THEN \* lines 61-62: await self.load_model()
                /\ Suspend(c, o, "synth_load_wait")
                /\ unload_seen' = [d \in Callers |-> FALSE]
                /\ UNCHANGED <<files, tmpfile, used>>
           ELSE /\ SynthBody(c, o)
                /\ UNCHANGED unload_seen
        /\ UNCHANGED <<model, is_loaded, audioVars, ctorVars>>

\* the lazy load_model() of lines 61-62 returns or raises
SynthLoadReturn(c) ==
    /\ pc[c] = "synth_load_wait"
    /\ Runnable(c)
    /\ \E ok \in BOOLEAN :
          /\ FinishConstruction(c, ok)
          /\ IF ok
             THEN SynthBody(c, op[c])
             ELSE /\ Return(c, op[c], "load_error")
                  /\ UNCHANGED files
    /\ unload_seen' = [unload_seen EXCEPT ![c] = FALSE]
    /\ UNCHANGED <<audioVars, ctorVars>>

\* the executor thread runs the lambda of lines 93-97 / 103-106: it reads
\* self.model at that moment
InferRun(c) ==
    /\ pc[c] = "infer_queued"
    /\ used' = [used EXCEPT ![c] = model]
    /\ pc' = [pc EXCEPT ![c] = "infer_running"]
    /\ UNCHANGED <<model, is_loaded, files, op, tmpfile, result, unload_seen,
                   audioVars, ctorVars>>

\* lines 109-117 after the await: on success the temp file is unlinked and
\* the audio returned; on an exception the error is printed and re-raised
InferReturn(c) ==
    /\ pc[c] = "infer_running"
    /\ Runnable(c)
    /\ \E ok \in BOOLEAN :
          /\ ok => used[c] # None
          /\ IF ok
             THEN LET path == SpeakerWavPath(op[c].speaker_wav, tmpfile[c]) IN
                  /\ files' = IF ShouldUnlink(path, op[c].speaker_wav)
                              THEN files \ {path}
                              ELSE files
                  /\ Return(c, op[c], "ok")
             ELSE /\ UNCHANGED files
                  /\ Return(c, op[c], "synthesis_error")
    /\ UNCHANGED <<model, is_loaded, unload_seen, audioVars, ctorVars>>

(***************************************************************************)
(* unload_model, health_check (engine_base.py:46-59),                      *)
(* get_supported_languages (coqui.py:119-121).                             *)
(***************************************************************************)
\* an unload_model that releases the handle and forgets the flag
UnloadEffectKeepsFlag ==
    IF model # None
    THEN model' = None /\ UNCHANGED is_loaded
    ELSE UNCHANGED <<model, is_loaded>>

\* lines 48-51: `if self.model is not None: del; model = None; is_loaded = False`
UnloadEffect ==
    IF model # None
    THEN model' = None /\ is_loaded' = FALSE
    ELSE UNCHANGED <<model, is_loaded>>

UnloadModel(c) ==
    /\ pc[c] = "idle"
    /\ Runnable(c)
    /\ UnloadEffect
    /\ Return(c, [NoOp EXCEPT !.kind = "unload", !.was_loaded = is_loaded], "ok")
    /\ unload_seen' = [d \in Callers |-> Constructing(d)]
    /\ UNCHANGED <<files, audioVars, ctorVars>>

HealthCheck(c) ==
    /\ pc[c] = "idle"
    /\ Runnable(c)
    /\ ReturnValue(c, [Outcome("ok", [NoOp EXCEPT !.kind = "health"])
                          EXCEPT !.health = HealthSnapshot])
    /\ UNCHANGED <<model, is_loaded, files, unload_seen, audioVars, ctorVars>>

\* a get_supported_languages() that returns self.SUPPORTED_LANGUAGES itself
ReturnsTheListItselfNoCopy == TRUE

\* Is the list get_supported_languages() returns the class's own list
\* object?  Line 121 returns self.SUPPORTED_LANGUAGES.copy(): a new list.
ReturnsTheListItself == FALSE

GetSupportedLanguages(c) ==
    /\ pc[c] = "idle"
    /\ Runnable(c)
    /\ ReturnValue(c, [Outcome("ok", [NoOp EXCEPT !.kind = "languages"])
                          EXCEPT !.languages = supported])
    /\ UNCHANGED <<model, is_loaded, files, unload_seen, audioVars, ctorVars>>

\* what a caller does to the list it was given: it removes "en" and appends
\* a code of its own
CallerEdit(list) == (list \ {"en"}) \cup {"xx"}

\* the caller changes the list its get_supported_languages() call returned;
\* the class's list changes with it only if it is the same object
CallerMutatesList(c) ==
    /\ pc[c] = "idle"
    /\ result[c].call.kind = "languages"
    /\ result[c].languages # CallerEdit(result[c].languages)
    /\ result' = [result EXCEPT ![c].languages = CallerEdit(@)]
    /\ supported' = IF ReturnsTheListItself THEN CallerEdit(supported) ELSE supported
    /\ UNCHANGED <<model, is_loaded, files, pc, op, tmpfile, used, unload_seen,
                   audioVars, config, device, cuda, mps>>

Next ==
    \E c \in Callers :
        \/ LoadModel(c)
        \/ LoadModelReturn(c)
        \/ Synthesize(c)
        \/ SynthLoadReturn(c)
        \/ InferRun(c)
        \/ InferReturn(c)
        \/ UnloadModel(c)
        \/ HealthCheck(c)
        \/ GetSupportedLanguages(c)
        \/ CallerMutatesList(c)

Spec == Init /\ [][Next]_vars

(***************************************************************************)
(* AudioProcessor.normalize_audio (audio.py:30-35).  Samples and            *)
(* target_peak are exact numbers in hundredths of full scale; the scaled    *)
(* samples audio * (target_peak / peak) are kept as fractions num[i] / den. *)
(***************************************************************************)
Abs(x) == IF x < 0 THEN -x ELSE x

\* np.max(np.abs(a)) of a non-empty array
MaxAbs(a) == CHOOSE m \in {Abs(a[i]) : i \in 1..Len(a)} :
                 \A i \in 1..Len(a) : Abs(a[i]) <= m

\* np.max raises ValueError on a zero-size array: the reduction has no identity
NpMaxRaises(a) == Len(a) = 0

\* lines 33-35: an all-zero buffer is returned as it is, any other is scaled
NormalizeAudio(a, peak) ==
    IF NpMaxRaises(a)
    THEN [called |-> TRUE, raised |-> TRUE, num |-> <<>>, den |-> 1]
    ELSE IF MaxAbs(a) = 0
    THEN [called |-> TRUE, raised |-> FALSE, num |-> a, den |-> 1]
    ELSE [called |-> TRUE, raised |-> FALSE,
          num |-> [i \in 1..Len(a) |-> a[i] * peak], den |-> MaxAbs(a)]

\* a caller picks a buffer and a target peak
InitAudio ==
    /\ InitEngine
    /\ Construct(DefaultConfig, FALSE, "no_attr")
    /\ audio \in Buffers
    /\ target_peak \in TargetPeaks
    /\ normalized = NotNormalized

Normalize ==
    /\ ~normalized.called
    /\ normalized' = NormalizeAudio(audio, target_peak)
    /\ UNCHANGED <<audio, target_peak, engineVars, ctorVars>>

NextAudio == Normalize

SpecAudio == InitAudio /\ [][NextAudio]_vars

(***************************************************************************)
(* Construction of the engine on any machine with any config, followed by  *)
(* its lifecycle calls, while the accelerators of the machine come and go. *)
(***************************************************************************)
InitDevice ==
    /\ InitEngine
    /\ \E cfg \in Configs, cu \in BOOLEAN, m \in MpsStates : Construct(cfg, cu, m)
    /\ audio = <<>>
    /\ target_peak = DefaultTargetPeak
    /\ normalized = NotNormalized

\* torch.cuda.is_available() / torch.backends.mps.is_available() start to
\* answer differently (a GPU is claimed, freed or lost); whether
\* torch.backends has the attribute mps does not change in a process
AvailabilityChanges ==
    /\ \E cu \in BOOLEAN, m \in MpsStates :
          /\ (mps = "no_attr") <=> (m = "no_attr")
          /\ <<cu, m>> # <<cuda, mps>>
          /\ cuda' = cu
          /\ mps' = m
    /\ UNCHANGED <<engineVars, audioVars, config, device, supported>>

NextDevice ==
    \/ \E c \in Callers :
          \/ LoadModel(c)
          \/ LoadModelReturn(c)
          \/ UnloadModel(c)
    \/ AvailabilityChanges

SpecDevice == InitDevice /\ [][NextDevice]_vars

(***************************************************************************)
(* Properties of the engine.                                               *)
(***************************************************************************)

\* C1: single-flight load.  At any moment at most one model construction is
\* in flight for the engine: a caller that reaches the load path while
\* another caller's construction is running does not start a second one.
SingleFlightLoad ==
    Cardinality({c \in Callers : Constructing(c)}) <= 1

\* C2: temp-file cleanup.  Every temporary file on disk belongs to a
\* synthesize() call that has not returned yet: once the call has returned
\* (audio, inference error or write error) its temp file is gone.
TempFileCleanup ==
    \A f \in files \cap TempFiles :
        \E c \in Callers : pc[c] # "idle" /\ tmpfile[c] = f

\* C3: a synthesize() call whose text is longer than max_length fails before
\* any model load: no such call is ever waiting for a model construction.
TooLongFailsBeforeLoad ==
    \A c \in Callers : pc[c] = "synth_load_wait" => ~TextRejected(op[c])

\* C4: a synthesize() call whose language is not supported ends with the
\* unsupported-language error, from the unloaded state too.
UnsupportedLanguageFails ==
    [][\A c \in Callers :
          (/\ op[c].kind = "synth"
           /\ LanguageRejected(op[c])
           /\ pc[c] # "idle"
           /\ pc'[c] = "idle")
          => result'[c].status = "unsupported_language"]_vars

\* C5: load_model() on a loaded engine is a no-op: no load_model() call that
\* found the engine loaded is waiting for a model construction.
LoadModelIdempotent ==
    \A c \in Callers : pc[c] = "load_wait" => ~op[c].was_loaded

\* C6: a failed model construction raises the load error to its caller and
\* assigns nothing: the engine keeps the state it had, so an unloaded engine
\* stays unloaded (flag false, no handle); and every call that needs the
\* model and finds the engine unloaded starts a construction, also after a
\* failure.
FailedLoadLeavesUnloaded ==
    [][\A c \in Callers :
          /\ (Constructing(c) /\ pc'[c] # pc[c]) =>
                \/ (model' # None /\ model' \notin LiveHandles /\ is_loaded')
                \/ (/\ result'[c].status = "load_error"
                    /\ pc'[c] = "idle"
                    /\ model' = model
                    /\ is_loaded' = is_loaded
                    /\ (~is_loaded => (~is_loaded' /\ model' = None)))
          /\ (pc[c] = "idle" /\ pc'[c] # "idle" /\ ~is_loaded) =>
                pc'[c] \in {"load_wait", "synth_load_wait"}
      ]_vars

\* C6 witness: a load_model() or synthesize() has raised the load error and
\* the engine is unloaded
FailedLoadWitness ==
    \E c \in Callers :
        /\ result[c].status = "load_error"
        /\ ~is_loaded
        /\ model = None

\* a synthesize() call of caller c begins (and suspends, or ends at once)
SynthStep(c) ==
    /\ pc[c] = "idle"
    /\ \/ op'[c].kind = "synth"
       \/ (pc'[c] = "idle" /\ result'[c].call.kind = "synth" /\ result'[c] # result[c])

\* C7: unload_model() leaves the flag false and the handle released, so that
\* health_check() then reports loaded = false; a synthesize() call that
\* finds the engine unloaded starts exactly one new construction, and when
\* that construction succeeds the engine is loaded with the new handle; the
\* rest of the call does not change the engine.
UnloadThenReload ==
    [][\A c \in Callers :
          /\ (result'[c].call.kind = "unload" /\ UnloadModel(c)) =>
                (~is_loaded' /\ model' = None /\ ~HealthSnapshot'.loaded)
          /\ (result'[c].call.kind = "health" /\ HealthCheck(c)) =>
                (result'[c].health.loaded <=> is_loaded)
          /\ (SynthStep(c) /\ ~is_loaded) =>
                pc'[c] = "synth_load_wait"
          /\ (pc[c] = "synth_load_wait" /\ pc'[c] # pc[c]
                /\ result'[c].status # "load_error") =>
                (is_loaded' /\ model' # None /\ model' \notin LiveHandles)
          /\ (Inferring(c) /\ pc'[c] # pc[c]) => UNCHANGED <<model, is_loaded>>
      ]_vars

\* C7 witness: one caller's unload_model() released the handle, the other
\* caller's synthesize() found the engine unloaded, reloaded it and returned
\* audio, and the engine is loaded
ReloadWitness ==
    \E c, d \in Callers :
        /\ c # d
        /\ result[d].status = "ok"
        /\ result[d].call.kind = "unload"
        /\ result[d].call.was_loaded
        /\ result[c].status = "ok"
        /\ result[c].call.kind = "synth"
        /\ ~result[c].call.was_loaded
        /\ is_loaded

\* C8: the only files a step ever removes are temp files, and each is removed
\* by the return of the synthesize() call that created it; a file the caller
\* passed by path stays on disk.
ReferenceFileKept ==
    [][/\ UserFiles \subseteq files'
       /\ \A f \in files \ files' :
             /\ f \in TempFiles
             /\ \E c \in Callers :
                   tmpfile[c] = f /\ pc[c] = "infer_running" /\ pc'[c] = "idle"
      ]_vars

\* C8 witness: one synthesize() with the path "ref.wav" returned audio,
\* another one failed in inference, and the file is on disk
ReferenceFileWitness ==
    \E c, d \in Callers :
        /\ result[c].status = "ok"
        /\ result[c].call.speaker_wav = [type |-> "str", path |-> "ref.wav"]
        /\ result[d].status = "synthesis_error"
        /\ result[d].call.speaker_wav = [type |-> "str", path |-> "ref.wav"]
        /\ "ref.wav" \in files

\* C9: while a caller waits for a construction or an inference, every other
\* caller can start and finish its own operations: the atomic ones when it is
\* idle, and the steps of its own load or synthesis when it is in one.
NonBlockingInference ==
    \A c, d \in Callers :
        (c # d /\ (Constructing(c) \/ Inferring(c))) =>
            /\ pc[d] = "idle" =>
                  /\ ENABLED HealthCheck(d)
                  /\ ENABLED GetSupportedLanguages(d)
                  /\ ENABLED UnloadModel(d)
                  /\ ENABLED LoadModel(d)
                  /\ ENABLED Synthesize(d)
            /\ pc[d] = "load_wait" => ENABLED LoadModelReturn(d)
            /\ pc[d] = "synth_load_wait" => ENABLED SynthLoadReturn(d)
            /\ pc[d] = "infer_queued" => ENABLED InferRun(d)
            /\ pc[d] = "infer_running" => ENABLED InferReturn(d)

\* C9 witness: caller c's inference is running on a handle it read from the
\* engine, and meanwhile caller d's unload_model() has released that handle
\* and returned
NonBlockingWitness ==
    \E c, d \in Callers :
        /\ c # d
        /\ pc[c] = "infer_running"
        /\ used[c] # None
        /\ model = None
        /\ result[d].status = "ok"
        /\ result[d].call.kind = "unload"
        /\ result[d].call.was_loaded

\* C11: health_check() is a pure snapshot: it returns (never raises), leaves
\* is_loaded, the model handle and the config as they are, and the dict it
\* returns carries the engine's current is_loaded and its config; and no
\* step of any operation changes the config.
HealthCheckPure ==
    [][/\ config' = config
       /\ \A c \in Callers :
             (result'[c].call.kind = "health" /\ HealthCheck(c)) =>
                /\ result'[c].status = "ok"
                /\ pc'[c] = "idle"
                /\ model' = model
                /\ is_loaded' = is_loaded
                /\ result'[c].health.engine = "CoquiXTTSEngine"
                /\ result'[c].health.loaded = is_loaded
                /\ result'[c].health.config = config
      ]_vars

\* C11 witness: a health_check() has returned loaded = true with the engine's
\* config while another caller's inference is in flight, and one has returned
\* loaded = false
HealthCheckWitness ==
    \E c, d \in Callers :
        /\ c # d
        /\ result[c].call.kind = "health"
        /\ result[c].status = "ok"
        /\ result[c].health.loaded
        /\ result[c].health.config = config
        /\ is_loaded
        /\ Inferring(d)

\* C12: when the inference of a synthesize() call fails, the call raises the
\* synthesis error (it returns no audio) with its temporary reference file
\* already removed from disk, and the step leaves the model handle and
\* is_loaded as they were.
InferenceFailureCleansUp ==
    [][\A c \in Callers :
          (pc[c] = "infer_running" /\ pc'[c] = "idle"
             /\ result'[c].status # "ok") =>
                /\ result'[c].status = "synthesis_error"
                /\ tmpfile[c] # "" => tmpfile[c] \notin files'
                /\ model' = model
                /\ is_loaded' = is_loaded
      ]_vars

\* C13: unload_model() on an unloaded engine changes nothing and raises
\* nothing; on a loaded engine it releases the handle and clears is_loaded;
\* and when a load_model() call returns during which an unload_model() ran,
\* with no load requested since that unload, the engine is not loaded.
UnloadDuringLoad ==
    [][\A c \in Callers :
          /\ (result'[c].call.kind = "unload" /\ UnloadModel(c)) =>
                /\ result'[c].status = "ok"
                /\ IF model = None
                   THEN model' = model /\ is_loaded' = is_loaded
                   ELSE model' = None /\ ~is_loaded'
          /\ (pc[c] = "load_wait" /\ pc'[c] = "idle" /\ unload_seen[c]) =>
                ~is_loaded'
      ]_vars

\* the validation of caller c's synthesize() call runs in this step: at once
\* on a loaded engine, or when its lazy load has succeeded
ValidationStep(c) ==
    \/ pc[c] = "idle" /\ is_loaded /\ SynthStep(c)
    \/ (pc[c] = "synth_load_wait" /\ pc'[c] # pc[c]
          /\ result'[c].status # "load_error")

\* C14: whenever the validation of a synthesize() call runs, the language is
\* checked first and the length second: a request with an unsupported
\* language raises the unsupported-language error whatever its length; one
\* with a supported language raises the text-too-long error exactly when
\* len(text) > limit, the limit being the max_length option when given and
\* 500 otherwise; every other request, the empty text included, goes on to
\* the model with the text it was given.
ValidationOrder ==
    [][\A c \in Callers :
          LET rejected == pc'[c] = "idle" /\ RaisedByValidation(result'[c].status)
              accepted == pc'[c] = "infer_queued"
              r == IF rejected THEN result'[c].call.request ELSE op'[c]
              given == {p \in r.kwargs : p[1] = "max_length"}
              limit == IF given = {} THEN 500 ELSE (CHOOSE p \in given : TRUE)[2]
              known == r.language \in
                          {"en", "es", "fr", "de", "it", "pt", "pl", "tr",
                           "ru", "nl", "cs", "ar", "zh-cn", "ja", "hu", "ko"}
          IN  ((rejected \/ accepted) /\ ValidationStep(c)) =>
                /\ ~known => result'[c].status = "unsupported_language"
                /\ (known /\ r.text > limit) => result'[c].status = "text_too_long"
                /\ (known /\ r.text <= limit) =>
                      /\ accepted
                      /\ TtsArgs(op'[c], SpeakerWavPath(op'[c].speaker_wav, tmpfile'[c])).text
                            = r.text
                /\ pc[c] = "synth_load_wait" =>
                      /\ r.text = op[c].text
                      /\ r.language = op[c].language
                      /\ r.kwargs = op[c].kwargs
      ]_vars

\* C14 witness: a request with an unsupported language and an over-long text
\* has raised the unsupported-language error, and a request of exactly 500
\* characters with no max_length option is on its way to the model
ValidationWitness ==
    \E c, d \in Callers :
        /\ result[c].status = "unsupported_language"
        /\ result[c].call.request.text = 501
        /\ result[c].call.request.kwargs = {}
        /\ Inferring(d)
        /\ op[d].text = 500
        /\ op[d].kwargs = {}

\* C15: for every inference submitted, the model is called in voice-cloning
\* mode, with the resolved reference path, exactly when the caller gave
\* reference audio, and in default-speaker mode exactly when it gave none;
\* a reference given as a path reaches the model as that same path, the
\* empty string included.
CloningIffReference ==
    \A c \in Callers :
        Inferring(c) =>
            LET path == SpeakerWavPath(op[c].speaker_wav, tmpfile[c])
                args == TtsArgs(op[c], path)
            IN  /\ args.mode = "clone" <=> op[c].speaker_wav.type # "none"
                /\ args.mode = "clone" => args.speaker_wav = path
                /\ op[c].speaker_wav.type = "str" =>
                      args.speaker_wav = op[c].speaker_wav.path

\* C17: in every reachable state is_loaded is true exactly when the engine
\* holds a handle, and every model object that is alive is the one the
\* engine holds: a handle the engine has dropped (by unload_model() or by a
\* later load) is referenced by no one.
OneLiveHandle ==
    /\ is_loaded <=> model # None
    /\ LiveHandles \subseteq {model}

\* C18: every inference that runs runs on a model object: the handle its
\* lambda read from self.model is not None.
InferenceOnLiveHandle ==
    \A c \in Callers : pc[c] = "infer_running" => used[c] # None

\* C19: the class's list of supported languages is the same sixteen codes in
\* every reachable state, whatever the callers did, also to the lists they
\* were given; every get_supported_languages() call returns exactly these
\* codes, and they are the codes the validation of synthesize() accepts.
LanguagesFixed ==
    /\ supported = SUPPORTED_LANGUAGES
    /\ [][/\ supported' = SUPPORTED_LANGUAGES
          /\ \A l \in Languages :
                LanguageRejected([NoOp EXCEPT !.language = l])' <=>
                    l \notin SUPPORTED_LANGUAGES
          /\ \A c \in Callers :
                (result'[c].call.kind = "languages" /\ GetSupportedLanguages(c)) =>
                    /\ result'[c].status = "ok"
                    /\ result'[c].languages = SUPPORTED_LANGUAGES
         ]_vars

\* C19 witness: one caller has changed the list it was given, the other
\* caller's get_supported_languages() has returned the full list, and the
\* engine has been loaded meanwhile
LanguagesWitness ==
    \E c, d \in Callers :
        /\ result[c].call.kind = "languages"
        /\ result[c].languages = CallerEdit(SUPPORTED_LANGUAGES)
        /\ result[d].call.kind = "languages"
        /\ result[d].languages = SUPPORTED_LANGUAGES
        /\ c # d
        /\ is_loaded

(***************************************************************************)
(* Properties of the construction (under SpecDevice).                      *)
(***************************************************************************)

\* C16: the constructed engine has as device the "device" entry of its
\* config when that is an explicit name, whatever is available; with "auto"
\* or no entry it has cuda if cuda is available, else mps if mps is
\* available, else cpu; and no later step (load_model, unload_model, a
\* change of what is available) changes the device.
DeviceSelection ==
    /\ LET given == {p \in config : p[1] = "device"}
           d == IF given = {} THEN "auto" ELSE (CHOOSE p \in given : TRUE)[2]
       IN  device = IF d # "auto" THEN d
                    ELSE IF cuda THEN "cuda"
                    ELSE IF mps = "available" THEN "mps"
                    ELSE "cpu"
    /\ [][device' = device]_vars

\* C16 witness: an engine constructed without a device entry chose mps; by
\* now cuda is available too, a load_model() has completed, and the device
\* is still mps
DeviceWitness ==
    /\ config = {}
    /\ device = "mps"
    /\ cuda
    /\ is_loaded
    /\ \E c \in Callers : result[c].call.kind = "load" /\ result[c].status = "ok"

(***************************************************************************)
(* Properties of AudioProcessor (under SpecAudio).                         *)
(***************************************************************************)

\* C10: normalize_audio never fails, whatever the buffer (the empty one
\* included): a silent buffer comes back unchanged, any other comes back
\* with maximum absolute amplitude target_peak.
NormalizeNeverFails ==
    normalized.called =>
        /\ ~normalized.raised
        /\ IF Len(audio) = 0 \/ MaxAbs(audio) = 0
           THEN normalized.num = audio /\ normalized.den = 1
           ELSE MaxAbs(normalized.num) = Abs(target_peak) * normalized.den

====
